---------------------------- MODULE Spec2Model ----------------------------
(***************************************************************************)
(* A model of FIPS.py: the FIPS-186 style bit generator (FIPS186Generator, *)
(* its one-round SHA-1 function G and generate_sequence), the three        *)
(* statistical tests and the event handlers of the Tk application.         *)
(*                                                                         *)
(* Python integers are unbounded.  A non-negative Python int is modelled   *)
(* as the sequence of its base-256 digits, least significant first, with   *)
(* no most significant zero digit (0 is the empty sequence), so that no    *)
(* value is ever cut to the width of a machine word.  bytes objects are    *)
(* sequences of numbers in 0..255 in the order of the bytes, str objects   *)
(* are sequences of one-character strings.                                 *)
(***************************************************************************)
EXTENDS Integers, Sequences, FiniteSets, TLC

(***************************************************************************)
(* Arithmetic of Python's int on digit sequences.                          *)
(***************************************************************************)
Radix == 256

Zero == << >>

One == <<1>>

RECURSIVE Norm(_)
\* the canonical form: most significant zero digits removed
Norm(a) ==
    IF a = << >> THEN << >>
    ELSE IF a[Len(a)] = 0 THEN Norm(SubSeq(a, 1, Len(a) - 1))
    ELSE a

Digit(a, i) == IF i <= Len(a) THEN a[i] ELSE 0

MaxOf(m, n) == IF m >= n THEN m ELSE n

RECURSIVE AddFrom(_, _, _, _)
AddFrom(a, b, i, carry) ==
    IF i > MaxOf(Len(a), Len(b))
    THEN (IF carry = 0 THEN << >> ELSE <<carry>>)
    ELSE LET s == Digit(a, i) + Digit(b, i) + carry
         IN  <<s % Radix>> \o AddFrom(a, b, i + 1, s \div Radix)

\* a + b
Add(a, b) == Norm(AddFrom(a, b, 1, 0))

RECURSIVE LessFrom(_, _, _)
LessFrom(a, b, i) ==
    IF i = 0 THEN FALSE
    ELSE IF a[i] # b[i] THEN a[i] < b[i]
    ELSE LessFrom(a, b, i - 1)

\* a < b, both canonical
Less(a, b) ==
    IF Len(a) # Len(b) THEN Len(a) < Len(b) ELSE LessFrom(a, b, Len(a))

RECURSIVE SubFrom(_, _, _, _)
SubFrom(a, b, i, borrow) ==
    IF i > Len(a) THEN << >>
    ELSE LET d == a[i] - Digit(b, i) - borrow
         IN  IF d < 0 THEN <<d + Radix>> \o SubFrom(a, b, i + 1, 1)
             ELSE <<d>> \o SubFrom(a, b, i + 1, 0)

\* a - b for a >= b
Sub(a, b) == Norm(SubFrom(a, b, 1, 0))

RECURSIVE Mod(_, _)
\* a % q for a >= 0 and q > 0
Mod(a, q) == IF Less(a, q) THEN a ELSE Mod(Sub(a, q), q)

RECURSIVE Pow2(_)
\* 2 ** n as a machine number, for n < 8
Pow2(n) == IF n = 0 THEN 1 ELSE 2 * Pow2(n - 1)

RECURSIVE MulSmallFrom(_, _, _, _)
MulSmallFrom(a, m, i, carry) ==
    IF i > Len(a)
    THEN (IF carry = 0 THEN << >> ELSE <<carry>>)
    ELSE LET s == (a[i] * m) + carry
         IN  <<s % Radix>> \o MulSmallFrom(a, m, i + 1, s \div Radix)

RECURSIVE DivSmallFrom(_, _, _, _)
\* digits i, i-1, ..., 1 of a \div m, highest first, rem the remainder carried down
DivSmallFrom(a, m, i, rem) ==
    IF i = 0 THEN << >>
    ELSE LET s == (rem * Radix) + a[i]
         IN  DivSmallFrom(a, m, i - 1, s % m) \o <<s \div m>>

Zeros(n) == [i \in 1..n |-> 0]

\* a << n
Shl(a, n) ==
    IF a = << >> THEN << >>
    ELSE Norm(Zeros(n \div 8) \o MulSmallFrom(a, Pow2(n % 8), 1, 0))

\* a >> n
Shr(a, n) ==
    IF Len(a) <= n \div 8 THEN << >>
    ELSE LET hi == SubSeq(a, (n \div 8) + 1, Len(a))
         IN  Norm(DivSmallFrom(hi, Pow2(n % 8), Len(hi), 0))

RECURSIVE DigitAnd(_, _, _)
\* x & y of two digits, bit by bit over k bits
DigitAnd(x, y, k) ==
    IF k = 0 THEN 0
    ELSE (x % 2) * (y % 2) + 2 * DigitAnd(x \div 2, y \div 2, k - 1)

RECURSIVE DigitOr(_, _, _)
DigitOr(x, y, k) ==
    IF k = 0 THEN 0
    ELSE (IF (x % 2) + (y % 2) > 0 THEN 1 ELSE 0)
         + 2 * DigitOr(x \div 2, y \div 2, k - 1)

\* a & b
BitAnd(a, b) ==
    Norm([i \in 1..MaxOf(Len(a), Len(b)) |->
             DigitAnd(Digit(a, i), Digit(b, i), 8)])

\* a | b
BitOr(a, b) ==
    Norm([i \in 1..MaxOf(Len(a), Len(b)) |->
             DigitOr(Digit(a, i), Digit(b, i), 8)])

\* (~a) & d for a, d >= 0.  ~a is -a-1, in two's complement the complement of
\* every bit of a with ones above: the result keeps the bits of d that a lacks.
AndInv(a, d) ==
    Norm([i \in 1..Len(d) |->
             DigitAnd((Radix - 1) - Digit(a, i), d[i], 8)])

Reverse(s) == [i \in 1..Len(s) |-> s[Len(s) + 1 - i]]

\* int.from_bytes(s, 'big')
FromBytes(s) == Norm(Reverse(s))

\* whether v.to_bytes(n, 'big') succeeds (OverflowError: int too big to convert)
FitsBytes(v, n) == Len(v) <= n

\* v.to_bytes(n, 'big') where it succeeds
ToBytes(v, n) == Reverse(v \o Zeros(n - Len(v)))


(***************************************************************************)
(* FIPS186Generator.G: one round (16 steps) of SHA-1 over the padded block.*)
(***************************************************************************)
H0 == FromBytes(<<103, 69, 35, 1>>)        \* 0x67452301

H1 == FromBytes(<<239, 205, 171, 137>>)    \* 0xEFCDAB89

H2 == FromBytes(<<152, 186, 220, 254>>)    \* 0x98BADCFE

H3 == FromBytes(<<16, 50, 84, 118>>)       \* 0x10325476

H4 == FromBytes(<<195, 210, 225, 240>>)    \* 0xC3D2E1F0

K == FromBytes(<<90, 130, 121, 153>>)      \* 0x5A827999

Mask32 == FromBytes(<<255, 255, 255, 255>>) \* 0xFFFFFFFF

BlockBytes == 64

Rounds == 16

\* A, B, C, D, E = H0, H1, H2, H3, H4.  The word t is not read.
InitRegs(t) == [A |-> H0, B |-> H1, C |-> H2, D |-> H3, E |-> H4]

\* M = c + b'\x00' * (64 - len(c)); a negative repeat count gives b''
PadBlock(c) == c \o Zeros(BlockBytes - Len(c))

\* W[i] = int.from_bytes(M[4i : 4i+4], 'big') for i in range(0, 64, 4)
Words(M) ==
    [i \in 1..Rounds |-> FromBytes(SubSeq(M, (4 * (i - 1)) + 1, 4 * i))]

\* A = temp, the mask left out
MaskANone(temp) == temp

\* A = temp & 0xFFFFFFFF
MaskA(temp) == BitAnd(temp, Mask32)

\* C = ((B << 30) | (B >> 2)), not reduced
RotB(B) == BitOr(Shl(B, 30), Shr(B, 2))

\* the body of the loop over i, for the word w = W[i]
Round(r, w) ==
    LET f    == BitOr(BitAnd(r.B, r.C), AndInv(r.B, r.D))
        temp == Add(Add(Add(Add(BitOr(Shl(r.A, 5), Shr(r.A, 27)), f), r.E), K), w)
    IN  [A |-> MaskA(temp), B |-> r.A, C |-> RotB(r.B), D |-> r.C, E |-> r.D]

\* H0..H4 after the loop, each as 4 bytes, concatenated
Digest(r) ==
    ToBytes(BitAnd(Add(H0, r.A), Mask32), 4) \o
    ToBytes(BitAnd(Add(H1, r.B), Mask32), 4) \o
    ToBytes(BitAnd(Add(H2, r.C), Mask32), 4) \o
    ToBytes(BitAnd(Add(H3, r.D), Mask32), 4) \o
    ToBytes(BitAnd(Add(H4, r.E), Mask32), 4)

RECURSIVE RoundsFrom(_, _, _)
\* steps i..16 of the loop from the registers r.  (TLC evaluates an argument
\* only when it is read: the test n = n has it compute each step's registers
\* before the next step starts, and is otherwise without effect.)
RoundsFrom(r, W, i) ==
    IF i > Rounds THEN r
    ELSE LET n == Round(r, W[i])
         IN  IF n = n THEN RoundsFrom(n, W, i + 1) ELSE r

\* G(self, c) as a function of self.t and c
G(t, c) == Digest(RoundsFrom(InitRegs(t), Words(PadBlock(c)), 1))


(***************************************************************************)
(* str and bytes helpers of FIPS186Generator.__init__ and                  *)
(* generate_sequence.                                                      *)
(***************************************************************************)
HexLower == <<"0", "1", "2", "3", "4", "5", "6", "7", "8", "9",
              "a", "b", "c", "d", "e", "f">>

HexUpper == <<"0", "1", "2", "3", "4", "5", "6", "7", "8", "9",
              "A", "B", "C", "D", "E", "F">>

IsHex(c) == \E v \in 1..16 : HexLower[v] = c \/ HexUpper[v] = c

HexVal(c) == (CHOOSE v \in 1..16 : HexLower[v] = c \/ HexUpper[v] = c) - 1

\* the ASCII whitespace bytes.fromhex skips
IsSpace(c) == c \in {" ", "\t", "\n", "\r", "\f"}

IsBlank(c) == c = " "

\* t.replace(" ", ""): only the space character is removed
StripSpaces(s) == SelectSeq(s, LAMBDA c : ~IsBlank(c))

RECURSIVE HexOK(_, _)
\* whether bytes.fromhex(s) succeeds, reading from position i: whitespace is
\* skipped before each pair of digits, the two digits of a pair are adjacent
HexOK(s, i) ==
    IF i > Len(s) THEN TRUE
    ELSE IF IsSpace(s[i]) THEN HexOK(s, i + 1)
    ELSE /\ i + 1 <= Len(s)
         /\ IsHex(s[i])
         /\ IsHex(s[i + 1])
         /\ HexOK(s, i + 2)

RECURSIVE HexBytes(_, _)
\* bytes.fromhex(s) from position i, where it succeeds
HexBytes(s, i) ==
    IF i > Len(s) THEN << >>
    ELSE IF IsSpace(s[i]) THEN HexBytes(s, i + 1)
    ELSE <<(16 * HexVal(s[i])) + HexVal(s[i + 1])>> \o HexBytes(s, i + 2)

\* the argument t = None
NoneT == <<"None">>

\* "67452301efcdab8998badcfe10325476c3d2e1f0"
DefaultT ==
    <<"6", "7", "4", "5", "2", "3", "0", "1", "e", "f", "c", "d", "a",
    "b", "8", "9", "9", "8", "b", "a", "d", "c", "f", "e", "1", "0", "3",
    "2", "5", "4", "7", "6", "c", "3", "d", "2", "e", "1", "f", "0">>

HexLen == 40

MinB == 160

MaxB == 512

DigestBits == 160

RECURSIVE DigitBits(_, _)
\* the k low bits of a digit, most significant first, as characters
DigitBits(d, k) ==
    IF k = 0 THEN << >>
    ELSE DigitBits(d \div 2, k - 1) \o <<IF d % 2 = 1 THEN "1" ELSE "0">>

RECURSIVE AllBits(_, _)
\* the bits of digits i, i-1, ..., 1 of v
AllBits(v, i) == IF i = 0 THEN << >> ELSE DigitBits(v[i], 8) \o AllBits(v, i - 1)

RECURSIVE DropZeros(_)
DropZeros(s) ==
    IF s = << >> THEN << >>
    ELSE IF s[1] = "0" THEN DropZeros(Tail(s))
    ELSE s

\* bin(value)[2:]: no leading zero, "0" for 0
Bin(v) == IF v = << >> THEN <<"0">> ELSE DropZeros(AllBits(v, Len(v)))

\* zfill left out
ZFillNone(s, n) == s

\* s.zfill(n): zeros on the left up to n characters, s itself when it is longer
ZFill(s, n) == IF Len(s) >= n THEN s ELSE [i \in 1..(n - Len(s)) |-> "0"] \o s

\* the byte count rounded down
NBytesFloor(bb) == bb \div 8

\* (self.b + 7) // 8
NBytes(bb) == (bb + 7) \div 8

\* (1 << b) - 1
Modulus(bb) == Sub(Shl(One, bb), One)


(***************************************************************************)
(* The state.                                                              *)
(*   One FIPS186Generator and the calls made on it:                        *)
(*     gpc          "none" before the constructor runs, "failed" when it   *)
(*                  raised ValueError, "ready" between calls, "loop" inside*)
(*                  generate_sequence, "error" when generate_sequence      *)
(*                  raised                                                 *)
(*     b_arg, t_arg the constructor's arguments; err, which check raised   *)
(*     b, q, z, t   self.b, self.q, self.z, self.t                         *)
(*     seed         the value random.getrandbits(b) returned               *)
(*     count, result_bits, x   the argument and locals of the running call *)
(*     returns      the strings the calls returned, in order               *)
(*   One call of G taken step by step:                                     *)
(*     g_pc ("idle", "rounds", "done"), g_t (self.t), g_c (the argument),  *)
(*     g_W (W), g_i (steps done), g_regs (A..E), g_out (the result)        *)
(*   One call of a statistical test: s_test (which), s_bits (the           *)
(*     argument), s_out (the report, or the exception raised)              *)
(*   The App: last_sequence (Unset while the attribute does not exist),    *)
(*     result_text, shown (the message box of the last handler, "" when it *)
(*     showed none), raised (the exception that left the last handler, ""  *)
(*     when it returned), saved (the file written), evt (the last handler) *)
(***************************************************************************)
VARIABLES gpc, b_arg, t_arg, err, b, q, z, t, seed, count, result_bits, x,
          returns,
          g_pc, g_t, g_c, g_W, g_i, g_regs, g_out,
          s_test, s_bits, s_out,
          last_sequence, result_text, shown, raised, saved, evt

genVars == <<gpc, b_arg, t_arg, err, b, q, z, t, seed, count, result_bits, x,
             returns>>

gVars == <<g_pc, g_t, g_c, g_W, g_i, g_regs, g_out>>

testVars == <<s_test, s_bits, s_out>>

appVars == <<last_sequence, result_text, shown, raised, saved, evt>>

vars == <<genVars, gVars, testVars, appVars>>

(***************************************************************************)
(* Bounds of the model and the inputs drawn.                               *)
(***************************************************************************)
\* calls of generate_sequence on one generator
MaxCalls == 2

\* the largest count asked for, in digests
MaxBlocks == 2

\* less than a digest, a digest and a bit, whole digests
Counts == {1, DigestBits + 1, MaxBlocks * DigestBits}

\* values of b: both ends of the range, one that is no multiple of 8, and one
\* on each side outside the range
SeedBits == {MinB - 1, MinB, MinB + 1, MaxB, MaxB + 1}

\* a b-bit value with mixed bits
Pattern(bb) ==
    BitAnd([i \in 1..NBytes(bb) |-> ((i * 37) + 11) % Radix], Modulus(bb))

\* values random.getrandbits(b) can return: 0 <= v < 2**b
Seeds(bb) == {Zero, Modulus(bb), Shl(One, bb - 1), Pattern(bb)}

InitGen ==
    /\ gpc = "none"
    /\ b_arg = 0
    /\ t_arg = << >>
    /\ err = ""
    /\ b = 0
    /\ q = Zero
    /\ z = Zero
    /\ t = << >>
    /\ seed = Zero
    /\ count = 0
    /\ result_bits = << >>
    /\ x = Zero
    /\ returns = << >>

(***************************************************************************)
(* FIPS186Generator.__init__(b, t), s the value getrandbits returns.       *)
(***************************************************************************)
\* what FIPS186Generator(b, t) raises: "" when it returns
CtorError(bb, tt) ==
    LET text == IF tt = NoneT THEN DefaultT ELSE tt
        hex  == StripSpaces(text)
    IN  IF ~(MinB <= bb /\ bb <= MaxB) THEN "b_range"
        ELSE IF Len(hex) # HexLen THEN "t_length"
        ELSE IF ~HexOK(hex, 1) THEN "t_hex"
        ELSE ""

Construct(bb, tt, s) ==
    /\ gpc = "none"
    /\ b_arg' = bb
    /\ t_arg' = tt
    /\ err' = CtorError(bb, tt)
    /\ UNCHANGED <<count, result_bits, x, returns>>
    /\ IF CtorError(bb, tt) # ""
       THEN /\ gpc' = "failed"
            /\ UNCHANGED <<b, q, z, t, seed>>
       ELSE /\ gpc' = "ready"
            /\ b' = bb
            /\ q' = Modulus(bb)
            /\ z' = s
            /\ seed' = s
            /\ t' = HexBytes(StripSpaces(IF tt = NoneT THEN DefaultT ELSE tt), 1)

(***************************************************************************)
(* FIPS186Generator.generate_sequence(count).                              *)
(***************************************************************************)
\* entry: result_bits = "", x = 0
StartGenerate(c) ==
    /\ gpc = "ready"
    /\ Len(returns) < MaxCalls
    /\ gpc' = "loop"
    /\ count' = c
    /\ result_bits' = << >>
    /\ x' = Zero
    /\ UNCHANGED <<b_arg, t_arg, err, b, q, z, t, seed, returns>>

\* z = (self.z + y) % self.q with y = 0
Candidate(zz, qq) == Mod(Add(zz, Zero), qq)

\* self.z = (1 + z + x) % self.q
NextZ(zc, xx, qq) == Mod(Add(Add(One, zc), xx), qq)

\* bits = bin(value)[2:].zfill(160)
BlockBits(value) == ZFill(Bin(value), DigestBits)

\* one pass of the while loop.  (\E v \in {e} names the value of e.)
Step ==
    /\ gpc = "loop"
    /\ Len(result_bits) < count
    /\ UNCHANGED <<b_arg, t_arg, err, b, q, t, seed, count, returns>>
    /\ \E zc \in {Candidate(z, q)} :
          IF ~FitsBytes(zc, NBytes(b))
          THEN /\ gpc' = "error"                \* to_bytes: OverflowError
               /\ UNCHANGED <<z, result_bits, x>>
          ELSE \E c \in {G(t, ToBytes(zc, NBytes(b)))} :
               \E value \in {FromBytes(c)} :
                  /\ gpc' = "loop"
                  /\ z' = NextZ(zc, x, q)
                  /\ result_bits' = result_bits \o BlockBits(value)
                  /\ x' = value

\* result_bits[:count]
Truncate(bits, c) ==
    SubSeq(bits, 1, IF c < 0 THEN Len(bits) + c
                    ELSE IF c <= Len(bits) THEN c ELSE Len(bits))

\* the loop's exit and the return; the frame's locals end with it
Return ==
    /\ gpc = "loop"
    /\ Len(result_bits) >= count
    /\ gpc' = "ready"
    /\ returns' = Append(returns, Truncate(result_bits, count))
    /\ count' = 0
    /\ result_bits' = << >>
    /\ x' = Zero
    /\ UNCHANGED <<b_arg, t_arg, err, b, q, z, t, seed>>


(***************************************************************************)
(* One call of G(c) on a generator whose self.t is tt, step by step.       *)
(***************************************************************************)
NoRegs == [A |-> Zero, B |-> Zero, C |-> Zero, D |-> Zero, E |-> Zero]

InitG ==
    /\ g_pc = "idle"
    /\ g_t = << >>
    /\ g_c = << >>
    /\ g_W = << >>
    /\ g_i = 0
    /\ g_regs = NoRegs
    /\ g_out = << >>

\* entry, padding, the split into words, A..E = H0..H4
GCall(tt, c) ==
    /\ g_pc \in {"idle", "done"}
    /\ g_pc' = "rounds"
    /\ g_t' = tt
    /\ g_c' = c
    /\ g_W' = Words(PadBlock(c))
    /\ g_i' = 0
    /\ g_regs' = InitRegs(tt)
    /\ g_out' = << >>

\* one pass of the loop over i
GRound ==
    /\ g_pc = "rounds"
    /\ g_i < Rounds
    /\ g_regs' = Round(g_regs, g_W[g_i + 1])
    /\ g_i' = g_i + 1
    /\ UNCHANGED <<g_pc, g_t, g_c, g_W, g_out>>

\* the final additions and the return
GReturn ==
    /\ g_pc = "rounds"
    /\ g_i = Rounds
    /\ g_pc' = "done"
    /\ g_out' = Digest(g_regs)
    /\ UNCHANGED <<g_t, g_c, g_W, g_i, g_regs>>

\* blocks handed to G: lengths around the 64-byte frame and below it
MaxOver == 2

BlockLens ==
    {0, 1, HexLen \div 2, NBytes(MinB + 1)}
        \cup ((BlockBytes - 1)..(BlockBytes + MaxOver))

\* fillings of a block
MaxFill == 3

Fill(k, i) ==
    CASE k = 0 -> 0
      [] k = 1 -> Radix - 1
      [] OTHER -> ((i * 37 * k) + 11) % Radix

Blocks == {[i \in 1..n |-> Fill(k, i)] : n \in BlockLens, k \in 0..MaxFill}

\* values of self.t: the default word and another one
AuxBytes == {HexBytes(DefaultT, 1), [i \in 1..(HexLen \div 2) |-> 165]}


(***************************************************************************)
(* The statistical tests.  A report is modelled by its numbers and its     *)
(* verdict, an exception by its type.  The floating-point quantities are   *)
(* ratios of small integers: S <= 1.82138636 is decided on the squares,    *)
(* with 1.82138636 ** 2 = 3.3174482..., and abs(s - j) < 0.5 on the        *)
(* doubled values, which are integers.                                     *)
(***************************************************************************)
\* 1.82138636 ** 2 lies between 3.31744 and 3.31745; no ratio compared with
\* it in the model lies between these two
ThresholdSqNum == 331745

ThresholdSqDen == 100000

\* num / den <= 1.82138636 ** 2, for den > 0
WithinThresholdSq(num, den) == num * ThresholdSqDen <= ThresholdSqNum * den

Raise(exc) == [kind |-> "raise", exc |-> exc]

Abs(n) == IF n < 0 THEN -n ELSE n

RECURSIVE CountOnes(_, _)
\* the number of "1" among the first i characters
CountOnes(bits, i) ==
    IF i = 0 THEN 0
    ELSE CountOnes(bits, i - 1) + (IF bits[i] = "1" THEN 1 ELSE 0)

\* the sum of the first i values of x = [1 if b == "1" else -1 for b in bits]
PartialSum(bits, i) == (2 * CountOnes(bits, i)) - i

frequency_test(bits) ==
    LET n  == Len(bits)
        Sn == PartialSum(bits, n)
    IN  IF n = 0
        THEN Raise("ZeroDivisionError")          \* abs(Sn) / (0 ** 0.5)
        ELSE [kind |-> "report", test |-> "frequency", n |-> n, Sn |-> Sn,
              passed |-> WithinThresholdSq(Sn * Sn, n)]

RECURSIVE CountRuns(_, _)
\* v after the loop has read positions 1..i-1 of range(1, n), 0-based
CountRuns(bits, i) ==
    IF i <= 1 THEN 1
    ELSE CountRuns(bits, i - 1) + (IF bits[i] # bits[i - 1] THEN 1 ELSE 0)

runs_test(bits) ==
    LET n    == Len(bits)
        ones == CountOnes(bits, n)
        v    == CountRuns(bits, n)
        \* n * pi * (1 - pi) = npq / n
        npq  == ones * (n - ones)
        \* (v - 2 * n * pi * (1 - pi)) = dev / n
        dev  == (v * n) - (2 * npq)
    IN  IF n = 0
        THEN Raise("ZeroDivisionError")          \* ones / n
        ELSE IF npq = 0
        THEN Raise("ZeroDivisionError")          \* ... / (2 * 0.0)
        ELSE [kind |-> "report", test |-> "runs", n |-> n, ones |-> ones,
              v |-> v,
              \* S ** 2 = dev ** 2 / (4 * n * npq)
              passed |-> WithinThresholdSq(dev * dev, 4 * n * npq)]

States == (-9)..9

\* twice S_prime[i-1] = S[i-1] - i / 2, i counted from 1
SPrime2(bits, i) == (2 * PartialSum(bits, i)) - i

\* abs(s - j) <= 0.5
InStateClosed(s2, j) == Abs(s2 - (2 * j)) <= 1

\* abs(s - j) < 0.5, s2 twice s
InState(s2, j) == Abs(s2 - (2 * j)) < 1

\* xi after the double loop
Visits(bits) ==
    [j \in States |->
        Cardinality({i \in 1..Len(bits) : InState(SPrime2(bits, i), j)})]

cumulative_sums_test_extended(bits) ==
    LET k  == Len(bits)
        L  == k - 1
        xi == Visits(bits)
    IN  IF L + 1 = 0
        THEN Raise("ZeroDivisionError")          \* k / (L + 1)
        ELSE IF k * (L - 1) < 0
        THEN Raise("TypeError")                  \* complex v > 1.82138636
        ELSE IF k * (L - 1) = 0
        THEN Raise("ZeroDivisionError")          \* ... / (0.0 ** 0.5)
        ELSE [kind |-> "report", test |-> "cusum", n |-> k, visits |-> xi,
              \* v ** 2 = (xi[j] - 1) ** 2 / (L - 1), as k / (L + 1) = 1
              passed |-> \A j \in States :
                           WithinThresholdSq((xi[j] - 1) * (xi[j] - 1), L - 1)]

\* the longest bit string handed to a test
MaxBits == 6

BitStrings == UNION {[1..n -> {"0", "1"}] : n \in 0..MaxBits}

NoOut == [kind |-> "none"]

InitTests ==
    /\ s_test = "none"
    /\ s_bits = << >>
    /\ s_out = NoOut

\* one call of a test; the tests keep nothing between calls
FrequencyCall(bits) ==
    /\ s_test = "none"
    /\ s_test' = "frequency"
    /\ s_bits' = bits
    /\ s_out' = frequency_test(bits)

RunsCall(bits) ==
    /\ s_test = "none"
    /\ s_test' = "runs"
    /\ s_bits' = bits
    /\ s_out' = runs_test(bits)

CusumCall(bits) ==
    /\ s_test = "none"
    /\ s_test' = "cusum"
    /\ s_bits' = bits
    /\ s_out' = cumulative_sums_test_extended(bits)


(***************************************************************************)
(* The App's handlers.  An exception that leaves a handler is reported by  *)
(* Tk and the event loop goes on: raised keeps its type.                   *)
(***************************************************************************)
\* self.last_sequence before any assignment: the attribute does not exist
Unset == <<"unset">>

Digits == <<"0", "1", "2", "3", "4", "5", "6", "7", "8", "9">>

IsDigit(c) == \E v \in 1..10 : Digits[v] = c

DigitVal(c) == (CHOOSE v \in 1..10 : Digits[v] = c) - 1

RECURSIVE DecVal(_, _)
\* the value of the decimal digits 1..i of s
DecVal(s, i) ==
    IF i = 0 THEN 0 ELSE (10 * DecVal(s, i - 1)) + DigitVal(s[i])

Unsigned(s) == IF s # << >> /\ s[1] \in {"-", "+"} THEN Tail(s) ELSE s

\* whether int(s) succeeds, for a text of signs, digits and letters
IntOK(s) == Unsigned(s) # << >> /\ \A i \in 1..Len(Unsigned(s)) : IsDigit(Unsigned(s)[i])

\* int(s) where it succeeds
IntVal(s) ==
    LET v == DecVal(Unsigned(s), Len(Unsigned(s)))
    IN  IF s[1] = "-" THEN -v ELSE v

\* the text b_entry holds at start: "160"
BStart == <<"1", "6", "0">>

\* the text t_entry holds at start: the default word in groups of 8
TStart ==
    <<"6", "7", "4", "5", "2", "3", "0", "1", " ", "e", "f", "c", "d",
    "a", "b", "8", "9", " ", "9", "8", "b", "a", "d", "c", "f", "e", " ",
    "1", "0", "3", "2", "5", "4", "7", "6", " ", "c", "3", "d", "2", "e",
    "1", "f", "0">>

\* texts typed into b_entry, count_entry and t_entry
BTexts == {BStart, <<"1", "5", "9">>, <<"b">>}

\* the largest count typed
MaxAppCount == 3

RECURSIVE DecText(_)
\* the decimal text of n >= 0
DecText(n) ==
    IF n < 10 THEN <<Digits[n + 1]>>
    ELSE DecText(n \div 10) \o <<Digits[(n % 10) + 1]>>

CountTexts ==
    {DecText(n) : n \in 0..MaxAppCount} \cup {<<"-", "1">>, << >>}

TTexts == {TStart, DefaultT \o <<"\t">>, SubSeq(DefaultT, 1, HexLen - 1) \o <<"g">>}

\* values getrandbits returns under SpecApp
AppSeeds == {Zero, Pattern(MinB)}

NoText == [kind |-> "empty"]

InitApp ==
    /\ last_sequence = Unset
    /\ result_text = NoText
    /\ shown = ""
    /\ raised = ""
    /\ saved = Unset
    /\ evt = "init"

RECURSIVE GenLoop(_, _, _, _, _)
\* the while loop of generate_sequence from the state st = [z, x, bits] of
\* a generator that holds b, q and t.  (n = n: see RoundsFrom.)
GenLoop(bb, qq, tt, st, c) ==
    IF Len(st.bits) >= c THEN st
    ELSE LET zc    == Candidate(st.z, qq)
             value == FromBytes(G(tt, ToBytes(zc, NBytes(bb))))
             n     == [z    |-> NextZ(zc, st.x, qq),
                       x    |-> value,
                       bits |-> st.bits \o BlockBits(value)]
         IN  IF n = n THEN GenLoop(bb, qq, tt, n, c) ELSE st

\* generate_sequence(count) as a function of the generator's state: the string
\* returned and self.z afterwards
GenerateSequence(bb, qq, tt, zz, c) ==
    LET st == GenLoop(bb, qq, tt, [z |-> zz, x |-> Zero, bits |-> << >>], c)
    IN  [ret |-> Truncate(st.bits, c), z |-> st.z]

\* App.generate with the entries' texts and the value getrandbits returns
AppGenerate(btext, ctext, ttext, s) ==
    /\ evt' = "generate"
    /\ raised' = ""
    /\ UNCHANGED saved
    /\ IF ~IntOK(btext) \/ ~IntOK(ctext)
       THEN /\ shown' = "invalid literal for int()"
            /\ UNCHANGED <<last_sequence, result_text>>
       ELSE \E bb \in {IntVal(btext)} : \E e \in {CtorError(bb, ttext)} :
            IF e # ""
            THEN /\ shown' = e
                 /\ UNCHANGED <<last_sequence, result_text>>
            ELSE \E sequence \in
                    {GenerateSequence(bb, Modulus(bb),
                                      HexBytes(StripSpaces(ttext), 1),
                                      s, IntVal(ctext)).ret} :
                 /\ result_text' = [kind |-> "sequence", n |-> Len(sequence),
                                    text |-> sequence]
                 /\ last_sequence' = sequence
                 /\ shown' = ""

\* the reports run_tests inserts, up to the first test that raises
TestReports(bits) ==
    LET f == frequency_test(bits)
        r == runs_test(bits)
        c == cumulative_sums_test_extended(bits)
    IN  IF f.kind = "raise" THEN [reports |-> << >>, exc |-> f.exc]
        ELSE IF r.kind = "raise" THEN [reports |-> <<f>>, exc |-> r.exc]
        ELSE IF c.kind = "raise" THEN [reports |-> <<f, r>>, exc |-> c.exc]
        ELSE [reports |-> <<f, r, c>>, exc |-> ""]

\* App.run_tests
AppRunTests ==
    /\ evt' = "run_tests"
    /\ UNCHANGED <<last_sequence, saved>>
    /\ IF last_sequence = Unset
       THEN /\ raised' = "AttributeError"
            /\ shown' = ""
            /\ UNCHANGED result_text
       ELSE IF last_sequence = << >>
       THEN /\ raised' = ""
            /\ shown' = "generate a sequence first"
            /\ UNCHANGED result_text
       ELSE \E out \in {TestReports(last_sequence)} :
            /\ raised' = out.exc
            /\ result_text' = [kind |-> "tests", reports |-> out.reports]
            /\ shown' = ""

\* App.save_to_file, path what the file dialog returns ("" when cancelled),
\* ok whether the file could be opened and written
AppSave(path, ok) ==
    /\ evt' = "save_to_file"
    /\ UNCHANGED <<last_sequence, result_text>>
    /\ IF last_sequence = Unset
       THEN /\ raised' = "AttributeError"
            /\ shown' = ""
            /\ UNCHANGED saved
       ELSE IF last_sequence = << >>
       THEN /\ raised' = ""
            /\ shown' = "no data to save"
            /\ UNCHANGED saved
       ELSE /\ raised' = (IF path # "" /\ ~ok THEN "OSError" ELSE "")
            /\ saved' = (IF path # "" /\ ok THEN last_sequence ELSE saved)
            /\ shown' = ""


(***************************************************************************)
(* The specifications.                                                     *)
(*   Spec      one generator: its construction and the calls of            *)
(*             generate_sequence on it, one pass of the loop at a time     *)
(*   SpecCtor  the constructor on a family of arguments                    *)
(*   SpecG     calls of G, one step at a time                              *)
(*   SpecTests one call of a statistical test on every short bit string    *)
(*   SpecApp   the App's buttons pressed in any order                      *)
(***************************************************************************)
Init == InitGen /\ InitG /\ InitTests /\ InitApp

\* arguments t of the constructor under Spec: the default, and a word that is
\* refused
AuxWords == {NoneT, DefaultT \o <<"\t">>}

DoConstruct ==
    /\ gpc = "none"
    /\ \E bb \in SeedBits, tt \in AuxWords : \E s \in Seeds(bb) :
          Construct(bb, tt, s)
    /\ UNCHANGED <<gVars, testVars, appVars>>

DoStart ==
    /\ gpc = "ready"
    /\ \E c \in Counts : StartGenerate(c)
    /\ UNCHANGED <<gVars, testVars, appVars>>

DoStep == Step /\ UNCHANGED <<gVars, testVars, appVars>>

DoReturn == Return /\ UNCHANGED <<gVars, testVars, appVars>>

Next == DoConstruct \/ DoStart \/ DoStep \/ DoReturn

Spec == Init /\ [][Next]_vars

\* a word of n hexadecimal characters
HexWord(n) == [i \in 1..n |-> DefaultT[((i - 1) % HexLen) + 1]]

\* s with the characters ins put in before position p
Insert(s, p, ins) == SubSeq(s, 1, p - 1) \o ins \o SubSeq(s, p, Len(s))

\* how far the words tried are from 40 hexadecimal characters
MaxOff == 2

\* what is put into a word: nothing, blanks, other whitespace, a letter that
\* is no hexadecimal digit
Insertions ==
    {<< >>, <<" ">>, <<"\t">>, <<"\n">>, <<"\t", "\t">>, <<" ", "\t">>, <<"g">>}

CtorWords ==
    {NoneT, TStart}
        \cup UNION {{Insert(HexWord(n), p, ins) :
                        p \in {1, 2, 3, n + 1}, ins \in Insertions} :
                    n \in (HexLen - MaxOff)..(HexLen + MaxOff)}

CtorCall ==
    /\ gpc = "none"
    /\ \E bb \in SeedBits, tt \in CtorWords : \E s \in Seeds(bb) :
          Construct(bb, tt, s)
    /\ UNCHANGED <<gVars, testVars, appVars>>

NextCtor == CtorCall

SpecCtor == Init /\ [][NextCtor]_vars

DoGCall ==
    /\ \E tt \in AuxBytes, c \in Blocks : GCall(tt, c)
    /\ UNCHANGED <<genVars, testVars, appVars>>

DoGRound == GRound /\ UNCHANGED <<genVars, testVars, appVars>>

DoGReturn == GReturn /\ UNCHANGED <<genVars, testVars, appVars>>

NextG == DoGCall \/ DoGRound \/ DoGReturn

SpecG == Init /\ [][NextG]_vars

DoFrequency ==
    /\ \E bits \in BitStrings : FrequencyCall(bits)
    /\ UNCHANGED <<genVars, gVars, appVars>>

DoRuns ==
    /\ \E bits \in BitStrings : RunsCall(bits)
    /\ UNCHANGED <<genVars, gVars, appVars>>

DoCusum ==
    /\ \E bits \in BitStrings : CusumCall(bits)
    /\ UNCHANGED <<genVars, gVars, appVars>>

NextTests == DoFrequency \/ DoRuns \/ DoCusum

SpecTests == Init /\ [][NextTests]_vars

PressGenerate ==
    /\ \E btext \in BTexts, ctext \in CountTexts, ttext \in TTexts :
          \E s \in AppSeeds :
             AppGenerate(btext, ctext, ttext, s)
    /\ UNCHANGED <<genVars, gVars, testVars>>

PressRunTests == AppRunTests /\ UNCHANGED <<genVars, gVars, testVars>>

PressSave ==
    /\ \E path \in {"", "out.txt"}, ok \in BOOLEAN : AppSave(path, ok)
    /\ UNCHANGED <<genVars, gVars, testVars>>

NextApp == PressGenerate \/ PressRunTests \/ PressSave

SpecApp == Init /\ [][NextApp]_vars


(***************************************************************************)
(* The claims about generate_sequence, checked under Spec.                 *)
(***************************************************************************)
IsBitString(s) == \A i \in 1..Len(s) : s[i] \in {"0", "1"}

\* ceil(c / 160)
StepsFor(c) == (c + DigestBits - 1) \div DigestBits

\* C1: every pass of the loop adds exactly 160 characters to the buffer and
\* none raises; the loop ends with the buffer at 160 * ceil(count / 160)
\* characters, and the call returns exactly count characters, all '0' or '1'
GenerateReturnsCount ==
    [][ /\ (gpc = "loop" => gpc' \in {"loop", "ready"})
        /\ (gpc = "loop" /\ gpc' = "loop" =>
               /\ Len(result_bits') = Len(result_bits) + DigestBits
               /\ IsBitString(result_bits'))
        /\ (gpc = "loop" /\ gpc' = "ready" =>
               /\ Len(result_bits) = DigestBits * StepsFor(count)
               /\ Len(returns') = Len(returns) + 1
               /\ Len(returns'[Len(returns')]) = count
               /\ IsBitString(returns'[Len(returns')])) ]_vars

\* a second call on a 512-bit generator has returned a digest and a bit
GenerateReturnsCountWitness ==
    /\ gpc = "ready"
    /\ b = MaxB
    /\ Len(returns) = 2
    /\ Len(returns[2]) = DigestBits + 1
    /\ IsBitString(returns[2])

RECURSIVE Concat(_)
Concat(ss) == IF ss = << >> THEN << >> ELSE Head(ss) \o Concat(Tail(ss))

\* C2: calls that each ask for a multiple of 160 bits return, together, the
\* bits one call for their sum returns on a generator with the same seed, and
\* leave the same z: x (previousOutput) is carried from call to call
CallsContinueStream ==
    (/\ gpc = "ready"
     /\ returns # << >>
     /\ \A i \in 1..Len(returns) : Len(returns[i]) % DigestBits = 0)
    => \E one \in {GenerateSequence(b, q, t, seed, Len(Concat(returns)))} :
          /\ Concat(returns) = one.ret
          /\ z = one.z

\* C3: 0 <= z < modulus from the constructor's return on
ZBelowModulus == gpc \in {"ready", "loop"} => Less(z, q)

\* C4: generate_sequence never raises: in every state of a generator the
\* value the next pass serialises fits in ceil(b / 8) bytes, and the block
\* handed to G is no longer than 64 bytes
GenerateNeverFails ==
    /\ gpc # "error"
    /\ gpc \in {"ready", "loop"} =>
          /\ FitsBytes(Candidate(z, q), NBytes(b))
          /\ Len(ToBytes(Candidate(z, q), NBytes(b))) <= BlockBytes

\* two calls have returned on a 512-bit generator whose z needs all 64 bytes
GenerateNeverFailsWitness ==
    /\ gpc = "ready"
    /\ b = MaxB
    /\ Len(returns) = 2
    /\ Len(Candidate(z, q)) = BlockBytes


(***************************************************************************)
(* The claim about the constructor, checked under SpecCtor.                *)
(***************************************************************************)
\* the word with all its whitespace removed: blanks, tabs, newlines
StripWhitespace(s) == SelectSeq(s, LAMBDA c : ~IsSpace(c))

IsHexWord(s) == Len(s) = HexLen /\ \A i \in 1..Len(s) : IsHex(s[i])

ValidArguments(bb, tt) ==
    /\ MinB <= bb
    /\ bb <= MaxB
    /\ IsHexWord(StripWhitespace(IF tt = NoneT THEN DefaultT ELSE tt))

\* C5: the constructor returns a generator exactly when 160 <= b <= 512 and
\* t without its whitespace is 40 hexadecimal characters, and raises otherwise
ConstructionIffValid ==
    gpc # "none" =>
       /\ gpc \in {"ready", "failed"}
       /\ gpc = "ready" <=> ValidArguments(b_arg, t_arg)

(***************************************************************************)
(* The claims about G, checked under SpecG.  The reference computation is  *)
(* on words of 32 bits, every operation within the 32 bits.                *)
(***************************************************************************)
WordBits == 32

\* the sequence of the n values of f, so that they are computed once
Tuple(f, n) == SubSeq(f, 1, n)

\* the word of 4 bytes: w[p + 1] is the bit of weight 2^p
RefWord(bytes) ==
    Tuple([i \in 1..WordBits |->
              (bytes[4 - ((i - 1) \div 8)] \div Pow2((i - 1) % 8)) % 2],
          WordBits)

RECURSIVE RefByte(_, _, _)
\* the value of bits from..to of w
RefByte(w, from, to) ==
    IF to < from THEN 0 ELSE w[from] + (2 * RefByte(w, from + 1, to))

\* the 4 bytes of a word, the most significant first
RefBytes(w) ==
    Tuple([j \in 1..4 |-> RefByte(w, (8 * (4 - j)) + 1, 8 * (5 - j))], 4)

\* w rotated left by n
RefRotl(w, n) ==
    Tuple([i \in 1..WordBits |-> w[((i - 1 - n) % WordBits) + 1]], WordBits)

RECURSIVE RefAddFrom(_, _, _, _)
RefAddFrom(a, c, i, carry) ==
    IF i > WordBits THEN << >>
    ELSE LET sum == a[i] + c[i] + carry
         IN  <<sum % 2>> \o RefAddFrom(a, c, i + 1, sum \div 2)

\* a + c modulo 2^32
RefAdd(a, c) == RefAddFrom(a, c, 1, 0)

\* (B & C) | (~B & D)
RefF(B, C, D) ==
    Tuple([i \in 1..WordBits |->
              IF (B[i] * C[i]) + ((1 - B[i]) * D[i]) > 0 THEN 1 ELSE 0],
          WordBits)

RefH ==
    [A |-> RefWord(<<103, 69, 35, 1>>),
     B |-> RefWord(<<239, 205, 171, 137>>),
     C |-> RefWord(<<152, 186, 220, 254>>),
     D |-> RefWord(<<16, 50, 84, 118>>),
     E |-> RefWord(<<195, 210, 225, 240>>)]

RefK == RefWord(<<90, 130, 121, 153>>)

RefRound(r, w) ==
    [A |-> RefAdd(RefAdd(RefAdd(RefAdd(RefRotl(r.A, 5), RefF(r.B, r.C, r.D)),
                                r.E), RefK), w),
     B |-> r.A,
     C |-> RefRotl(r.B, 30),
     D |-> r.C,
     E |-> r.D]

\* W[i] of the block padded on the right with zero bytes to 64 bytes
RefW(c, i) ==
    RefWord(Tuple([j \in 1..4 |->
                     IF (4 * (i - 1)) + j <= Len(c) THEN c[(4 * (i - 1)) + j]
                     ELSE 0], 4))

RECURSIVE RefRoundsFrom(_, _, _, _)
\* the registers after steps i..n, from the registers r before step i
RefRoundsFrom(r, c, i, n) ==
    IF i > n THEN r
    ELSE LET m == RefRound(r, RefW(c, i))
         IN  IF m = m THEN RefRoundsFrom(m, c, i + 1, n) ELSE r

\* the reference registers after n steps on block c
RefAfter(c, n) == RefRoundsFrom(RefH, c, 1, n)

\* H0 || H1 || H2 || H3 || H4
RefDigest(r) ==
    RefBytes(RefAdd(RefH.A, r.A)) \o RefBytes(RefAdd(RefH.B, r.B)) \o
    RefBytes(RefAdd(RefH.C, r.C)) \o RefBytes(RefAdd(RefH.D, r.D)) \o
    RefBytes(RefAdd(RefH.E, r.E))

\* the low 32 bits of a register
Low32(v) == RefWord(ToBytes(BitAnd(v, Mask32), 4))

\* C7: G raises on a block longer than 64 bytes and returns nothing; on a
\* block of at most 64 bytes it works on the block padded with zero bytes to
\* 64 bytes and returns 20 bytes
GRejectsLongBlocks ==
    g_pc # "idle" =>
       IF Len(g_c) > BlockBytes
       THEN g_pc = "error" /\ g_out = << >>
       ELSE /\ g_W = Words(g_c \o [i \in 1..(BlockBytes - Len(g_c)) |-> 0])
            /\ g_pc = "done" => Len(g_out) = DigestBits \div 8

AllSame(bits) == \A i \in 1..Len(bits) : bits[i] = bits[1]

\* C6: the runs test on an all-'0' or all-'1' string and the cumulative-sums
\* test on a string with L = k - 1 <= 1 end with DegenerateSequenceError,
\* not with an arithmetic fault, and give no report
DegenerateIsReported ==
    /\ (s_test = "runs" /\ s_bits # << >> /\ AllSame(s_bits)) =>
          s_out = Raise("DegenerateSequenceError")
    /\ (s_test = "cusum" /\ Len(s_bits) - 1 <= 1) =>
          s_out = Raise("DegenerateSequenceError")

\* round(s) of Python for s = s2 / 2: a half goes to the even neighbour
PyRound2(s2) ==
    IF s2 % 2 = 0 THEN s2 \div 2
    ELSE IF ((s2 - 1) \div 2) % 2 = 0 THEN (s2 - 1) \div 2
    ELSE (s2 + 1) \div 2

\* twice the centred sum, from the bits: S'[i] = (ones - zeros) - i / 2
Centred2(bits, i) ==
    (2 * (Cardinality({m \in 1..i : bits[m] = "1"})
           - Cardinality({m \in 1..i : bits[m] = "0"}))) - i

\* C9 as stated: visits[j] is the number of indices i with round(S'[i]) = j
VisitsCountRounding ==
    (s_test = "cusum" /\ Len(s_bits) >= 3) =>
       /\ s_out.kind = "report"
       /\ \A j \in States :
             s_out.visits[j] =
                Cardinality({i \in 1..Len(s_bits) :
                                PyRound2(Centred2(s_bits, i)) = j})

\* C9 as amended: visits[j] is the number of indices i with S'[i] = j
\* exactly, all of them even; an index with a half-integer S'[i], which is
\* every odd one, is counted in no state, and no index is counted twice
VisitsCountExact ==
    (s_test = "cusum" /\ Len(s_bits) >= 3) =>
       /\ s_out.kind = "report"
       /\ \A j \in States :
             s_out.visits[j] =
                Cardinality({i \in 1..Len(s_bits) :
                                i % 2 = 0 /\ Centred2(s_bits, i) = 2 * j})

\* a report on a string whose first centred sum, 0.5, rounds to a state but
\* is counted in none, and whose second, 1, is counted in state 1
VisitsCountExactWitness ==
    /\ s_test = "cusum"
    /\ Len(s_bits) >= 3
    /\ s_out.kind = "report"
    /\ Centred2(s_bits, 1) = 1
    /\ PyRound2(Centred2(s_bits, 1)) \in States
    /\ \A j \in States : s_out.visits[j] = (IF j = 1 THEN 1 ELSE 0)

(***************************************************************************)
(* The claim about the App, checked under SpecApp.                         *)
(***************************************************************************)
\* C10: last_sequence is defined in every state, and run_tests or
\* save_to_file before any generate has succeeded shows its message and
\* returns without raising
HandlersBeforeGenerate ==
    /\ last_sequence # Unset
    /\ (evt = "run_tests" /\ last_sequence \in {Unset, << >>}) =>
          raised = "" /\ shown = "generate a sequence first"
    /\ (evt = "save_to_file" /\ last_sequence \in {Unset, << >>}) =>
          raised = "" /\ shown = "no data to save"

=============================================================================
